---- MODULE Spec2Model ----
(***************************************************************************)
(* MRCE_Lite: the multi-round orchestration loop (orchestrator.py) over    *)
(* the gate / select / execute / judge pipeline (modules.py).              *)
(*                                                                         *)
(* Texts that the code only passes around (queries, answers, rationales,   *)
(* summaries, labels) are TLA+ strings.  Texts the code edits (the hint    *)
(* accumulators) are sequences of one-character strings, so that "+" and   *)
(* str.strip() are computed.  Confidences, scores, thresholds and the      *)
(* diversity weight are in tenths; a Jaccard similarity is in sixths.      *)
(***************************************************************************)
EXTENDS Integers, Sequences, FiniteSets, TLC

VARIABLES
    env,     \* what the collaborators and the caller may answer in this run
    self,    \* Orchestrator / MRCE_Lite attributes
    state,   \* the OrchestratorState of the session that is running
    pc,      \* position inside Orchestrator.forward ("idle": no call running)
    fr,      \* locals of Orchestrator.forward
    pl,      \* locals of MRCE_Lite.forward
    out,     \* how the last forward call ended, and what it returned
    gh,      \* history variables of the verification (never read by the code)
    cur,     \* the session that is running: 1 or 2
    other    \* the other session, suspended: its state, pc, fr, pl, out and gh

vars == <<env, self, state, pc, fr, pl, out, gh, cur, other>>

---------------------------------------------------------------------------
(* Bounds of the model *)

NumExperts == 3
MaxRounds == 3
MaxCalls == 2
MaxTopK == 3

---------------------------------------------------------------------------
(* Python values *)

None == "None"

Truthy(s) == s # None /\ s # ""

Max2(a, b) == IF a >= b THEN a ELSE b

Min2(a, b) == IF a <= b THEN a ELSE b

SeqToSet(s) == {s[i] : i \in 1..Len(s)}

\* str.strip(): drop leading and trailing whitespace
Whitespace == {" ", "\n", "\t"}

RECURSIVE LStrip(_)
LStrip(s) ==
    IF s # <<>> /\ Head(s) \in Whitespace THEN LStrip(Tail(s)) ELSE s

RECURSIVE RStrip(_)
RStrip(s) ==
    IF s # <<>> /\ s[Len(s)] \in Whitespace
    THEN RStrip(SubSeq(s, 1, Len(s) - 1))
    ELSE s

Strip(s) == RStrip(LStrip(s))

IsPrefix(s, t) == Len(s) <= Len(t) /\ SubSeq(t, 1, Len(s)) = s

---------------------------------------------------------------------------
(* modules.py: registry *)

EXPERTS ==
    <<"Analyst", "Synthesizer", "Critic", "Theorist", "Empiricist",
      "Statistician", "SystemsEngineer", "CounterexampleHunter">>

\* the registry of the model: the first NumExperts experts of EXPERTS
Experts == SubSeq(EXPERTS, 1, Min2(NumExperts, Len(EXPERTS)))

\* ex.persona_name.lower()
Lower(name) ==
    CASE name = "Analyst" -> "analyst"
      [] name = "Synthesizer" -> "synthesizer"
      [] name = "Critic" -> "critic"
      [] name = "Theorist" -> "theorist"
      [] name = "Empiricist" -> "empiricist"
      [] name = "Statistician" -> "statistician"
      [] name = "SystemsEngineer" -> "systemsengineer"
      [] OTHER -> "counterexamplehunter"

\* expert_hints.get(key, "")
HintFor(expert_hints, name) ==
    IF Lower(name) \in DOMAIN expert_hints THEN expert_hints[Lower(name)] ELSE <<>>

\* self.weights = cfg.get("weights", {}) with no experts.yaml: every weight 1.0
_weight(persona, mode) == 1 * 1

---------------------------------------------------------------------------
(* modules.py: gating *)

\* t.strip().lower() of one comma-separated token of coverage_tags
NormTag(tok) ==
    CASE tok \in {"x", " x", "X"} -> "x"
      [] tok \in {"y", "Y "} -> "y"
      [] tok \in {"z"} -> "z"
      [] OTHER -> ""

\* {t.strip().lower() for t in (coverage_tags or "").split(",") if t.strip()}
ParseTags(coverage_tags) ==
    {NormTag(coverage_tags[i]) : i \in 1..Len(coverage_tags)} \ {""}

PassesGateMut(gate, min_conf) == gate.respond = "yes"

\* gate.respond == "yes" and gate.confidence >= self.gate_min_conf
PassesGate(gate, min_conf) ==
    gate.respond = "yes" /\ gate.confidence >= min_conf

Candidate(ex, gate, mode, hint) ==
    [expert |-> ex, score |-> gate.confidence * _weight(ex, mode),
     tags |-> ParseTags(gate.coverage_tags), hint |-> hint]

\* gating.append(dict(expert=self.experts[0], score=1.0, tags=set(), hint=""))
FallbackCandidate ==
    [expert |-> Experts[1], score |-> 10, tags |-> {}, hint |-> <<>>]

WithFallbackMut(gating) ==
    IF gating = <<>>
    THEN <<FallbackCandidate, [FallbackCandidate EXCEPT !.expert = Experts[2]]>>
    ELSE gating

\* if not gating: fallback
WithFallback(gating) ==
    IF gating = <<>> THEN <<FallbackCandidate>> ELSE gating

\* lines 210-217 for the gate results of a whole round: the gated list, in
\* registry order
RECURSIVE Gating(_, _, _, _)
Gating(gates, min_conf, mode, expert_hints) ==
    IF gates = <<>> THEN <<>>
    ELSE LET n == Len(gates)
             ex == Experts[n]
             rest == Gating(SubSeq(gates, 1, n - 1), min_conf, mode, expert_hints)
         IN IF PassesGate(gates[n], min_conf)
            THEN Append(rest, Candidate(ex, gates[n], mode,
                                        HintFor(expert_hints, ex)))
            ELSE rest

\* lines 210-221: the candidates that reach the selector
ToSelector(gates, min_conf, mode, expert_hints) ==
    WithFallback(Gating(gates, min_conf, mode, expert_hints))

---------------------------------------------------------------------------
(* modules.py: selector *)

JaccardUnit == 2 * 3

_jaccardMut(a, b) ==
    IF a = {} /\ b = {} THEN JaccardUnit
    ELSE (Cardinality(a \cap b) * JaccardUnit) \div Max2(Cardinality(a \cup b), 1)

\* len(a & b) / max(len(a | b), 1), in sixths; 0 for two empty sets
_jaccard(a, b) ==
    IF a = {} /\ b = {} THEN 0
    ELSE (Cardinality(a \cap b) * JaccardUnit) \div Max2(Cardinality(a \cup b), 1)

RECURSIVE MaxOver(_)
MaxOver(S) ==
    LET x == CHOOSE y \in S : TRUE
    IN IF S = {x} THEN x ELSE Max2(x, MaxOver(S \ {x}))

\* sim = max(_jaccard(c.tags, s.tags) for s in selected), 0.0 when none selected
Sim(c, selected) ==
    IF selected = <<>> THEN 0
    ELSE MaxOver({_jaccard(c.tags, selected[j].tags) : j \in 1..Len(selected)})

ValMut(c, selected, lambda) == c.score * JaccardUnit

\* val = c["score"] - self.gate_lambda * sim, in units of 1/60
\* (score/10 - (lambda/10) * (sim/6) = (score * 6 - lambda * sim) / 60)
Val(c, selected, lambda) ==
    c.score * JaccardUnit - lambda * Sim(c, selected)

RECURSIVE BestIdxMut(_, _, _, _, _, _)
BestIdxMut(candidates, selected, lambda, i, best_idx, best_val) ==
    IF i > Len(candidates) THEN best_idx
    ELSE LET val == Val(candidates[i], selected, lambda)
         IN IF i = 1 \/ val >= best_val
            THEN BestIdxMut(candidates, selected, lambda, i + 1, i, val)
            ELSE BestIdxMut(candidates, selected, lambda, i + 1, best_idx, best_val)

\* the inner for-loop: best_idx = 0, best_val = -1e9, strict ">" keeps the first
\* maximum.  Every representable value exceeds -1e9, so the first candidate always
\* replaces the initial best_val.
RECURSIVE BestIdx(_, _, _, _, _, _)
BestIdx(candidates, selected, lambda, i, best_idx, best_val) ==
    IF i > Len(candidates) THEN best_idx
    ELSE LET val == Val(candidates[i], selected, lambda)
         IN IF i = 1 \/ val > best_val
            THEN BestIdx(candidates, selected, lambda, i + 1, i, val)
            ELSE BestIdx(candidates, selected, lambda, i + 1, best_idx, best_val)

RemoveAt(s, i) == SubSeq(s, 1, i - 1) \o SubSeq(s, i + 1, Len(s))

SelectMoreMut(candidates, selected, top_k) ==
    candidates # <<>> /\ Len(selected) <= top_k

\* while candidates and len(selected) < self.top_k
SelectMore(candidates, selected, top_k) ==
    candidates # <<>> /\ Len(selected) < top_k

RECURSIVE SelectLoop(_, _, _, _)
SelectLoop(candidates, selected, top_k, lambda) ==
    IF SelectMore(candidates, selected, top_k)
    THEN LET b == BestIdx(candidates, selected, lambda, 1, 1, 0)
         IN SelectLoop(RemoveAt(candidates, b), Append(selected, candidates[b]),
                       top_k, lambda)
    ELSE selected

\* selected = []; candidates = gating[:]; while ...
Select(gating, top_k, lambda) == SelectLoop(gating, <<>>, top_k, lambda)

---------------------------------------------------------------------------
(* modules.py: judge helpers *)

\* get(obj, key, None)
Get(obj, key) == IF key \in DOMAIN obj THEN obj[key] ELSE None

RECURSIVE FirstTruthy(_, _)
FirstTruthy(obj, keys) ==
    IF keys = <<>> THEN ""
    ELSE IF Truthy(Get(obj, Head(keys))) THEN Get(obj, Head(keys))
         ELSE FirstTruthy(obj, Tail(keys))

AnswerKeys == <<"answer", "best", "completion", "output", "response">>

RationaleKeys == <<"rationale", "why", "critique", "explanation", "reason">>

\* _unpack_judge: (ans, rat)
_unpack_judge(judge_out) ==
    [ans |-> FirstTruthy(judge_out, AnswerKeys),
     rat |-> FirstTruthy(judge_out, RationaleKeys)]

---------------------------------------------------------------------------
(* The collaborators' possible answers *)

\* ExpertBase.forward(...).answer: one text per persona
AnswerOf(name) ==
    CASE name = "Analyst" -> "answer of Analyst"
      [] name = "Synthesizer" -> "answer of Synthesizer"
      [] name = "Critic" -> "answer of Critic"
      [] name = "Theorist" -> "answer of Theorist"
      [] name = "Empiricist" -> "answer of Empiricist"
      [] name = "Statistician" -> "answer of Statistician"
      [] name = "SystemsEngineer" -> "answer of SystemsEngineer"
      [] OTHER -> "answer of CounterexampleHunter"

\* a judge output that names no winner and ranks Critic before Analyst
RankingOnly == [best |-> "", rankings |-> "Critic > Analyst", why |-> "because"]

\* what self.judge(...) may return: a candidate's text, a text of its own, a
\* label in "best", a ranking only, or nothing usable
JudgeOuts(answers, kinds) ==
    {[answer |-> answers[i], rationale |-> "because"] :
        i \in IF "echo" \in kinds THEN 1..Len(answers) ELSE {}}
    \cup (IF "fabricated" \in kinds
          THEN {[answer |-> "text of the judge", rationale |-> "because"]}
          ELSE {})
    \cup (IF "ranking" \in kinds
          THEN {RankingOnly}
          ELSE {})
    \cup (IF "empty" \in kinds THEN {[answer |-> None, rationale |-> None]} ELSE {})

\* what the alternate simple(question, a1, a2) may return
SimpleOuts(a1, a2, kinds) ==
    (IF "echo" \in kinds
     THEN {[answer |-> a1, rationale |-> "because"]}
     ELSE {})
    \cup (IF "fabricated" \in kinds \/ "echo" \notin kinds
          THEN {[answer |-> "text of the judge", rationale |-> "because"]}
          ELSE {})

---------------------------------------------------------------------------
(* orchestrator.py: OrchestratorState, locals *)

DEFAULT_ULTIMATE_GOAL == "Reach irreducible truth or contradiction."

\* OrchestratorState()
FreshState ==
    [history |-> <<>>, summary |-> "", goal |-> DEFAULT_ULTIMATE_GOAL,
     mode |-> "verify", router_guidance |-> <<>>,
     expert_hints |-> [k \in {"analyst", "synth", "critic"} |-> <<>>],
     round_idx |-> 0]

\* an unbound local / final = None
NoPred ==
    [bound |-> FALSE, vibe |-> "", candidates |-> <<>>, rationale |-> "",
     answer |-> "", candidate_labels |-> <<>>, payload |-> None]

FrInit ==
    [query |-> "", final |-> NoPred, trace |-> <<>>, pred |-> NoPred,
     i |-> 0, n |-> 0, want_payload |-> FALSE]

PlInit ==
    [vibe |-> "", gi |-> 0, gating |-> <<>>, selected |-> <<>>, si |-> 0,
     answers |-> <<>>, labels |-> <<>>]

NoOut ==
    [kind |-> "none", error |-> "", answer |-> "", rationale |-> "", vibe |-> "",
     goal |-> "", mode |-> "", rounds |-> 0, summary |-> "", trace |-> <<>>]

Collaborators == {"router", "gate", "expert", "judge", "simple", "summarizer", "critic"}

\* a max_rounds argument: given or None
Arg(v) == [given |-> TRUE, v |-> v]

NoArg == [given |-> FALSE, v |-> 0]

\* no judge output seen yet in this round
NoJudgeOut == [none |-> TRUE]

\* the history of a call, for the properties only: the calls made and the last one,
\* the rounds started and completed, and of the current round the state it began
\* with, the gate results, the hints handed to the gate calls and to the expert
\* calls, the judge's output and the alternate judge's, the number of judge calls
\* that raised, and the arguments of the call
GhInit ==
    [ncalls |-> 0, completed |-> 0, started |-> 0, stopAt |-> 0, entryIdx |-> 0,
     passed |-> 0, answers |-> <<>>, calls |-> [c \in Collaborators |-> 0],
     last |-> "", before |-> FreshState, gates |-> <<>>, gateHints |-> <<>>,
     expertHints |-> <<>>, judge_out |-> NoJudgeOut, judgeRaised |-> 0,
     simple_out |-> NoJudgeOut,
     args |-> [goal |-> None, mode |-> None, max_rounds |-> NoArg]]

Called(g, c) == [g EXCEPT !.calls[c] = @ + 1, !.last = c]

---------------------------------------------------------------------------
(* Run profiles: the answers the environment may give *)

GateOut(r, c, t) == [respond |-> r, confidence |-> c, coverage_tags |-> t]

MetaOut(s, rh, ah, sh, ch) ==
    [stop_label |-> s, router_hint |-> rh, analyst_hint |-> ah,
     synth_hint |-> sh, critic_hint |-> ch]

\* the whole loop over several queries, with few answers per collaborator
LoopEnv ==
    [gateOuts |-> {GateOut("yes", 9, <<"x">>)},
     judgeKinds |-> {"echo"},
     vibes |-> {"analytic"},
     summaries |-> {"summary"},
     metaOuts |-> {MetaOut("continue", <<"r">>, <<>>, <<>>, <<>>),
                   MetaOut("irreducible_truth", <<>>, <<>>, <<>>, <<>>),
                   MetaOut("contradiction", <<>>, <<>>, <<>>, <<>>)},
     queries |-> {"q1"},
     goals |-> {None},
     modes |-> {None},
     payloads |-> {FALSE},
     calls |-> MaxCalls,
     maxRoundsArgs |-> {NoArg, Arg(0), Arg(MaxRounds - 1)},
     initMaxRounds |-> {MaxRounds},
     topKs |-> {1},
     minConfs |-> {0},
     lambdas |-> {5},
     sessions |-> {1},
     threads |-> FALSE]

\* one query, one round at a time: every gate answer, every top_k
PipeEnv ==
    [gateOuts |-> {GateOut("yes", 9, <<"x">>), GateOut("yes", 8, <<"X">>),
                   GateOut("yes", 7, <<"y">>), GateOut("yes", 8, <<" x", "Y ", "">>),
                   GateOut("yes", 3, <<>>), GateOut("no", 9, <<"x">>)},
     judgeKinds |-> {"echo", "fabricated", "ranking", "empty"},
     vibes |-> {"analytic"},
     summaries |-> {"summary"},
     metaOuts |-> {MetaOut("irreducible_truth", <<>>, <<>>, <<>>, <<>>)},
     queries |-> {"q1"},
     goals |-> {None},
     modes |-> {None},
     payloads |-> {FALSE},
     calls |-> 1,
     maxRoundsArgs |-> {NoArg},
     initMaxRounds |-> {1},
     topKs |-> 0..MaxTopK,
     minConfs |-> {0, 8},
     lambdas |-> {5},
     sessions |-> {1},
     threads |-> FALSE]

\* one query, one round: no expert passes gating (each answers no, or yes below
\* the threshold), top_k at least 1
AbstainEnv ==
    [PipeEnv EXCEPT !.gateOuts = {GateOut("no", 9, <<"x">>), GateOut("yes", 3, <<"y">>)},
                    !.vibes = {"analytic", "critical"},
                    !.topKs = 1..MaxTopK,
                    !.minConfs = {8}]

\* the hint texts the meta-critic may return
HintTexts == {<<>>, <<" ">>, <<"a">>, <<" ", "b">>, <<"c", "\n">>}

\* the hint texts it may return for one accumulator alone
SoloHints == {<<" ">>, <<"a">>}

\* one query: every hint text for all accumulators at once, or a hint for one
HintEnv ==
    [gateOuts |-> {GateOut("yes", 9, <<"x">>)},
     judgeKinds |-> {"echo"},
     vibes |-> {"analytic"},
     summaries |-> {"summary"},
     metaOuts |-> {MetaOut("continue", h, h, h, h) : h \in HintTexts}
                  \cup {MetaOut("continue", h, <<>>, <<>>, <<>>) : h \in SoloHints}
                  \cup {MetaOut("continue", <<>>, h, <<>>, <<>>) : h \in SoloHints}
                  \cup {MetaOut("continue", <<>>, <<>>, h, <<>>) : h \in SoloHints}
                  \cup {MetaOut("continue", <<>>, <<>>, <<>>, h) : h \in SoloHints},
     queries |-> {"q1"},
     goals |-> {None},
     modes |-> {None},
     payloads |-> {FALSE},
     calls |-> 1,
     maxRoundsArgs |-> {NoArg},
     initMaxRounds |-> {MaxRounds},
     topKs |-> {1},
     minConfs |-> {0},
     lambdas |-> {5},
     sessions |-> {1},
     threads |-> FALSE]

\* two rounds of one query: each expert answers yes or no, and the meta-critic
\* gives a hint to the router and to every role after the first round
CarryEnv ==
    [gateOuts |-> {GateOut("yes", 9, <<"x">>), GateOut("no", 9, <<"x">>)},
     judgeKinds |-> {"echo"},
     vibes |-> {"analytic"},
     summaries |-> {"summary"},
     metaOuts |-> {MetaOut("continue", <<"r">>, <<"a">>, <<"s">>, <<"c">>)},
     queries |-> {"q1"},
     goals |-> {None},
     modes |-> {None},
     payloads |-> {FALSE},
     calls |-> 1,
     maxRoundsArgs |-> {NoArg},
     initMaxRounds |-> {2},
     topKs |-> {1, MaxTopK},
     minConfs |-> {0},
     lambdas |-> {5},
     sessions |-> {1},
     threads |-> FALSE]

\* the same, the meta-critic giving no hint to the synthesizer
FallbackHintEnv ==
    [CarryEnv EXCEPT
        !.metaOuts = {MetaOut("continue", <<"r">>, <<"a">>, <<>>, <<"c">>)}]

\* one query: the meta-critic answers continue, an empty label, a label outside
\* the enumerated set, or a terminal one; no hints
LabelEnv ==
    [LoopEnv EXCEPT
        !.metaOuts = {MetaOut(l, <<>>, <<>>, <<>>, <<>>) :
                         l \in {"continue", "", "done", "irreducible_truth"}},
        !.calls = 1,
        !.maxRoundsArgs = {NoArg}]

\* two sessions through one Orchestrator, two calls in all, one after the other:
\* each call may pass a goal, a mode and max_rounds, or leave them out
PersistEnv ==
    [gateOuts |-> {GateOut("yes", 9, <<"x">>)},
     judgeKinds |-> {"echo"},
     vibes |-> {"analytic"},
     summaries |-> {"summary"},
     metaOuts |-> {MetaOut("continue", <<>>, <<>>, <<>>, <<>>)},
     queries |-> {"q1"},
     goals |-> {None, "", "prove it"},
     modes |-> {"", "explore"},
     payloads |-> {FALSE},
     calls |-> 2,
     maxRoundsArgs |-> {NoArg, Arg(1)},
     initMaxRounds |-> {2},
     topKs |-> {1},
     minConfs |-> {0},
     lambdas |-> {5},
     sessions |-> {1, 2},
     threads |-> FALSE]

\* two sessions through one Orchestrator, one thread each: two calls of two rounds
\* in all, interleaved step by step
ThreadsEnv ==
    [PersistEnv EXCEPT
        !.metaOuts = {MetaOut("continue", <<"r">>, <<"a">>, <<"s">>, <<"c">>)},
        !.goals = {None},
        !.modes = {None},
        !.maxRoundsArgs = {NoArg},
        !.threads = TRUE]

---------------------------------------------------------------------------
(* Initial state: Orchestrator(max_rounds), MRCE_Lite(top_k, ...), init_state() *)

InitWith(e) ==
    /\ env = e
    /\ \E mr \in e.initMaxRounds, k \in e.topKs, c \in e.minConfs, l \in e.lambdas :
          self = [max_rounds |-> mr, top_k |-> k, gate_min_conf |-> c,
                  gate_lambda |-> l, judge_M |-> k]
    /\ state = FreshState
    /\ pc = "idle"
    /\ fr = FrInit
    /\ pl = PlInit
    /\ out = NoOut
    /\ gh = GhInit
    /\ cur \in {1, 2}
    /\ other = [state |-> FreshState, pc |-> "idle", fr |-> FrInit, pl |-> PlInit,
                out |-> NoOut, gh |-> GhInit]

Init == InitWith(LoopEnv)

---------------------------------------------------------------------------
(* orchestrator.py: Orchestrator.forward *)

\* an exception leaves forward: the locals are gone, state keeps what was written
Raised(error) ==
    /\ pc' = "idle"
    /\ out' = [NoOut EXCEPT !.kind = "raised", !.error = error]
    /\ fr' = FrInit
    /\ pl' = PlInit

MaxRoundsAfterMut(max_rounds, current) == current

\* lines 37-38: if max_rounds is not None: self.max_rounds = max_rounds
MaxRoundsAfter(max_rounds, current) ==
    IF max_rounds.given THEN max_rounds.v ELSE current

\* lines 33-36: if goal: state.goal = goal (likewise mode)
ArgOr(arg, current) == IF Truthy(arg) THEN arg ELSE current

\* lines 33-41: the arguments, final = None, trace = []
Forward ==
    /\ pc = "idle"
    /\ cur \in env.sessions
    /\ gh.ncalls + other.gh.ncalls < env.calls
    /\ \E q \in env.queries, goal \in env.goals, mode \in env.modes,
          max_rounds \in env.maxRoundsArgs, w \in env.payloads :
          LET mr == MaxRoundsAfter(max_rounds, self.max_rounds)
          IN /\ state' = [state EXCEPT !.goal = ArgOr(goal, @),
                                       !.mode = ArgOr(mode, @)]
             /\ self' = [self EXCEPT !.max_rounds = mr]
             /\ fr' = [FrInit EXCEPT !.query = q, !.n = Max2(mr, 0),
                                     !.want_payload = w]
             /\ gh' = [GhInit EXCEPT
                         !.ncalls = gh.ncalls + 1, !.completed = gh.completed,
                         !.entryIdx = state.round_idx,
                         !.args = [goal |-> goal, mode |-> mode,
                                   max_rounds |-> max_rounds]]
    /\ pc' = "loop"
    /\ pl' = PlInit
    /\ out' = NoOut
    /\ UNCHANGED <<env, cur, other>>

\* line 43-44: for _ in range(self.max_rounds): state.round_idx += 1
LoopHead ==
    /\ pc = "loop"
    /\ IF fr.i < fr.n
       THEN /\ state' = [state EXCEPT !.round_idx = @ + 1]
            /\ pc' = "router"
            /\ gh' = [gh EXCEPT !.started = @ + 1, !.passed = 0, !.before = state,
                                 !.gates = <<>>, !.gateHints = <<>>,
                                 !.expertHints = <<>>, !.simple_out = NoJudgeOut,
                                 !.judge_out = NoJudgeOut]
       ELSE /\ pc' = "exit"
            /\ UNCHANGED <<state, gh>>
    /\ pl' = PlInit
    /\ UNCHANGED <<env, cur, other, self, fr, out>>

---------------------------------------------------------------------------
(* modules.py: MRCE_Lite.forward, called at orchestrator.py line 45 *)

\* line 208: vibe = self.router(...).vibe
RouterCall ==
    /\ pc = "router"
    /\ gh' = Called(gh, "router")
    /\ \/ /\ \E v \in env.vibes : pl' = [PlInit EXCEPT !.vibe = v, !.gi = 1]
          /\ pc' = "gate"
          /\ UNCHANGED <<fr, out>>
       \/ Raised("collaborator")
    /\ UNCHANGED <<env, cur, other, self, state>>

\* lines 210-236: one gate call of the for-loop; after the last expert's gate the
\* fallback and the selection run, up to the first expert call
GateCall ==
    /\ pc = "gate"
    /\ \/ /\ \E gate \in env.gateOuts :
               LET ex == Experts[pl.gi]
                   hint == HintFor(state.expert_hints, ex)
                   gating == IF PassesGate(gate, self.gate_min_conf)
                             THEN Append(pl.gating,
                                         Candidate(ex, gate, state.mode, hint))
                             ELSE pl.gating
                   all == WithFallback(gating)
                   selected == Select(all, self.top_k, self.gate_lambda)
               IN /\ gh' = [Called(gh, "gate") EXCEPT
                             !.passed = IF gate.respond = "yes"
                                           /\ gate.confidence >= self.gate_min_conf
                                        THEN @ + 1 ELSE @,
                             !.gates = Append(@, gate),
                             !.gateHints = Append(@, hint)]
                  /\ IF pl.gi < Len(Experts)
                     THEN /\ pl' = [pl EXCEPT !.gi = @ + 1, !.gating = gating]
                          /\ pc' = "gate"
                          /\ UNCHANGED self
                     ELSE /\ pl' = [pl EXCEPT !.gi = @ + 1, !.gating = all,
                                              !.selected = selected, !.si = 1]
                          /\ IF selected = <<>>
                             THEN /\ pc' = "judge"
                                  /\ self' = [self EXCEPT !.judge_M = 1]
                             ELSE /\ pc' = "expert"
                                  /\ UNCHANGED self
          /\ UNCHANGED <<fr, out>>
       \/ /\ Raised("collaborator")
          /\ gh' = Called(gh, "gate")
          /\ UNCHANGED self
    /\ UNCHANGED <<env, cur, other, state>>

ExpertCallMut ==
    /\ pc = "expert"
    /\ \/ /\ LET item == pl.selected[pl.si]
                 answers == <<AnswerOf(item.expert)>> \o pl.answers
             IN /\ pl' = [pl EXCEPT !.si = @ + 1, !.answers = answers,
                                    !.labels = Append(@, item.expert)]
                /\ gh' = [Called(gh, "expert") EXCEPT
                            !.expertHints = Append(@, [expert |-> item.expert,
                                                       hint |-> item.hint])]
                /\ IF pl.si < Len(pl.selected)
                   THEN pc' = "expert" /\ UNCHANGED self
                   ELSE /\ pc' = "judge"
                        /\ self' = [self EXCEPT !.judge_M = Max2(Len(answers), 1)]
          /\ UNCHANGED <<fr, out>>
       \/ /\ Raised("collaborator")
          /\ gh' = Called(gh, "expert")
          /\ UNCHANGED self
    /\ UNCHANGED <<env, cur, other, state>>

\* lines 238-248: one expert call of the for-loop; after the last one,
\* self.judge.M = max(len(answers), 1)
ExpertCall ==
    /\ pc = "expert"
    /\ \/ /\ LET item == pl.selected[pl.si]
                 answers == Append(pl.answers, AnswerOf(item.expert))
             IN /\ pl' = [pl EXCEPT !.si = @ + 1, !.answers = answers,
                                    !.labels = Append(@, item.expert)]
                /\ gh' = [Called(gh, "expert") EXCEPT
                            !.expertHints = Append(@, [expert |-> item.expert,
                                                       hint |-> item.hint])]
                /\ IF pl.si < Len(pl.selected)
                   THEN pc' = "expert" /\ UNCHANGED self
                   ELSE /\ pc' = "judge"
                        /\ self' = [self EXCEPT !.judge_M = Max2(Len(answers), 1)]
          /\ UNCHANGED <<fr, out>>
       \/ /\ Raised("collaborator")
          /\ gh' = Called(gh, "expert")
          /\ UNCHANGED self
    /\ UNCHANGED <<env, cur, other, state>>

\* lines 261-265: the Prediction the pipeline returns
MakePred(ans, rat, payload) ==
    [bound |-> TRUE, vibe |-> pl.vibe, candidates |-> pl.answers,
     rationale |-> rat, answer |-> ans, candidate_labels |-> pl.labels,
     payload |-> IF fr.want_payload THEN payload ELSE None]

JudgeCallMut ==
    /\ pc = "judge"
    /\ \/ /\ \E judge_out \in JudgeOuts(pl.answers, env.judgeKinds),
               payload \in {"completions", None} :
               LET u == _unpack_judge(judge_out)
               IN /\ fr' = [fr EXCEPT !.pred = MakePred(u.ans, u.rat, payload)]
                  /\ gh' = [Called(gh, "judge") EXCEPT !.judge_out = judge_out]
          /\ pc' = "summarize"
          /\ UNCHANGED <<pl, out>>
       \/ /\ Raised("collaborator")
          /\ gh' = [Called(gh, "judge") EXCEPT !.judgeRaised = @ + 1]
    /\ UNCHANGED <<env, cur, other, self, state>>

\* lines 250-252 with _call_judge: the completions call, or after its TypeError the
\* reasoning_attempt_i call (payload None); any other exception goes to line 253
JudgeCall ==
    /\ pc = "judge"
    /\ \/ /\ \E judge_out \in JudgeOuts(pl.answers, env.judgeKinds),
               payload \in {"completions", None} :
               LET u == _unpack_judge(judge_out)
               IN /\ fr' = [fr EXCEPT !.pred = MakePred(u.ans, u.rat, payload)]
                  /\ gh' = [Called(gh, "judge") EXCEPT !.judge_out = judge_out]
          /\ pc' = "summarize"
       \/ /\ pc' = "judge_alt"
          /\ gh' = [Called(gh, "judge") EXCEPT !.judgeRaised = @ + 1]
          /\ UNCHANGED fr
    /\ UNCHANGED <<env, cur, other, self, state, pl, out>>

\* lines 253-259: the alternate judge; its exception leaves the pipeline
SimpleJudgeCall ==
    /\ pc = "judge_alt"
    /\ \/ /\ LET a1 == IF pl.answers # <<>> THEN pl.answers[1] ELSE ""
                 a2 == IF Len(pl.answers) > 1 THEN pl.answers[2] ELSE ""
             IN \E jo \in SimpleOuts(a1, a2, env.judgeKinds) :
                   /\ fr' = [fr EXCEPT
                               !.pred = MakePred(jo.answer, jo.rationale, None)]
                   /\ gh' = [Called(gh, "simple") EXCEPT !.simple_out = jo]
          /\ pc' = "summarize"
          /\ UNCHANGED <<pl, out>>
       \/ /\ Raised("collaborator")
          /\ gh' = Called(gh, "simple")
    /\ UNCHANGED <<env, cur, other, self, state>>

---------------------------------------------------------------------------
(* orchestrator.py: the rest of the round *)

\* lines 56-57: state.summary = self.summarizer(...).summary
SummarizerCall ==
    /\ pc = "summarize"
    /\ gh' = Called(gh, "summarizer")
    /\ \/ /\ \E summary_out \in env.summaries :
               state' = [state EXCEPT !.summary = summary_out]
          /\ pc' = "critic"
          /\ UNCHANGED <<fr, pl, out>>
       \/ /\ Raised("collaborator")
          /\ UNCHANGED state
    /\ UNCHANGED <<env, cur, other, self>>

ApplyHintNoStrip(acc, hint) ==
    IF hint # <<>> THEN acc \o <<"\n">> \o hint ELSE acc

ApplyHintMut(acc, hint) ==
    IF hint # <<>> THEN Strip(hint) ELSE acc

\* lines 64-71: if hint: acc = (acc + "\n" + hint).strip()
ApplyHint(acc, hint) ==
    IF hint # <<>> THEN Strip(acc \o <<"\n">> \o hint) ELSE acc

IsTerminalMut(stop_label) == stop_label = "irreducible_truth"

IsTerminalLoose(stop_label) == stop_label # "continue"

\* line 124: meta.stop_label in ("irreducible_truth", "contradiction")
IsTerminal(stop_label) == stop_label \in {"irreducible_truth", "contradiction"}

HistoryPairMut(query, answer) ==
    <<[role |-> "assistant", content |-> answer],
      [role |-> "user", content |-> query]>>

\* lines 74-75: the two messages appended to state.history.messages
HistoryPair(query, answer) ==
    <<[role |-> "user", content |-> query],
      [role |-> "assistant", content |-> answer]>>

RoundInfoMut(st, pred, meta) ==
    [round |-> Len(fr.trace) + 1, mode |-> st.mode, goal |-> st.goal,
     vibe |-> pred.vibe, candidates |-> pred.candidates,
     judge_rationale |-> pred.rationale, judge_payload |-> pred.payload,
     meta |-> meta, summary |-> st.summary]

\* lines 77-96: round_info
RoundInfo(st, pred, meta) ==
    [round |-> st.round_idx, mode |-> st.mode, goal |-> st.goal, vibe |-> pred.vibe,
     candidates |-> pred.candidates, judge_rationale |-> pred.rationale,
     judge_payload |-> pred.payload, meta |-> meta, summary |-> st.summary]

\* lines 60-126: the meta-critic call, the hints, the history, the trace and the
\* stop decision
CriticCall ==
    /\ pc = "critic"
    /\ \/ /\ \E meta \in env.metaOuts :
               LET st == [state EXCEPT
                        !.router_guidance = ApplyHint(@, meta.router_hint),
                        !.expert_hints["analyst"] = ApplyHint(@, meta.analyst_hint),
                        !.expert_hints["synth"] = ApplyHint(@, meta.synth_hint),
                        !.expert_hints["critic"] = ApplyHint(@, meta.critic_hint),
                        !.history = @ \o HistoryPair(fr.query, fr.pred.answer)]
                   stop == IsTerminal(meta.stop_label)
               IN /\ state' = st
                  /\ fr' = [fr EXCEPT !.trace = Append(@, RoundInfo(st, fr.pred, meta)),
                                      !.i = @ + 1,
                                      !.final = IF stop THEN fr.pred ELSE @]
                  /\ pc' = IF stop THEN "exit" ELSE "loop"
                  /\ gh' = [Called(gh, "critic") EXCEPT
                              !.completed = @ + 1,
                              !.answers = Append(@, fr.pred.answer),
                              !.stopAt = IF @ = 0 /\ meta.stop_label \in
                                              {"irreducible_truth", "contradiction"}
                                         THEN gh.started ELSE @]
          /\ UNCHANGED <<pl, out>>
       \/ /\ Raised("collaborator")
          /\ gh' = Called(gh, "critic")
          /\ UNCHANGED state
    /\ UNCHANGED <<env, cur, other, self>>

\* lines 128-141: if final is None: final = pred; return the Prediction.  With no
\* round run in this call pred is unbound and line 129 raises UnboundLocalError.
Return ==
    /\ pc = "exit"
    /\ IF ~fr.final.bound /\ ~fr.pred.bound
       THEN Raised("UnboundLocalError")
       ELSE LET final == IF fr.final.bound THEN fr.final ELSE fr.pred
            IN /\ out' = [kind |-> "returned", error |-> "", answer |-> final.answer,
                          rationale |-> final.rationale, vibe |-> final.vibe,
                          goal |-> state.goal, mode |-> state.mode,
                          rounds |-> state.round_idx, summary |-> state.summary,
                          trace |-> fr.trace]
               /\ pc' = "idle"
               /\ fr' = FrInit
               /\ pl' = PlInit
    /\ UNCHANGED <<env, cur, other, self, state, gh>>

SharedFieldsMut == {"history", "expert_hints"}

\* the fields of OrchestratorState whose default object is one object shared by
\* all instances: none, history and expert_hints come from a default_factory and
\* the other defaults are immutable
SharedFields == {}

\* the caller turns to the other session, one that makes calls: between two
\* forward calls, or, with one thread per session, at any point of a call.  The
\* suspended session keeps its state and its locals; a shared field would show
\* the running session's object.
Switch ==
    /\ pc = "idle" \/ env.threads
    /\ (3 - cur) \in env.sessions
    /\ cur' = 3 - cur
    /\ state' = [f \in DOMAIN state |->
                    IF f \in SharedFields THEN state[f] ELSE other.state[f]]
    /\ pc' = other.pc
    /\ fr' = other.fr
    /\ pl' = other.pl
    /\ out' = other.out
    /\ gh' = other.gh
    /\ other' = [state |-> state, pc |-> pc, fr |-> fr, pl |-> pl, out |-> out,
                 gh |-> gh]
    /\ UNCHANGED <<env, self>>

Next ==
    \/ Switch
    \/ Forward
    \/ LoopHead
    \/ RouterCall
    \/ GateCall
    \/ ExpertCall
    \/ JudgeCall
    \/ SimpleJudgeCall
    \/ SummarizerCall
    \/ CriticCall
    \/ Return

Spec == Init /\ [][Next]_vars

InitPipe == InitWith(PipeEnv)

SpecPipe == InitPipe /\ [][Next]_vars

InitAbstain == InitWith(AbstainEnv)

SpecAbstain == InitAbstain /\ [][Next]_vars

InitHints == InitWith(HintEnv)

SpecHints == InitHints /\ [][Next]_vars

InitCarry == InitWith(CarryEnv)

SpecCarry == InitCarry /\ [][Next]_vars

InitFallbackHint == InitWith(FallbackHintEnv)

SpecFallbackHint == InitFallbackHint /\ [][Next]_vars

InitLabels == InitWith(LabelEnv)

SpecLabels == InitLabels /\ [][Next]_vars

InitPersist == InitWith(PersistEnv)

SpecPersist == InitPersist /\ [][Next]_vars

InitThreads == InitWith(ThreadsEnv)

SpecThreads == InitThreads /\ [][Next]_vars

---------------------------------------------------------------------------
(* Properties *)

\* a forward call has ended, and not by a collaborator's exception
CallEnded == pc = "idle" /\ gh.ncalls > 0 /\ out.error # "collaborator"

\* the gating, the fallback and the selection of the current round are done
SelectionDone == pl.gi > Len(Experts)

\* C1: every forward call runs at most max_rounds rounds and then returns; when no
\* round answers a terminal stop_label it runs exactly max_rounds rounds.
C1_AtMostMaxRoundsThenReturns ==
    CallEnded =>
        /\ out.kind = "returned"
        /\ gh.started <= self.max_rounds
        /\ (gh.stopAt = 0 => gh.started = self.max_rounds)

\* C2: when the meta-critic first answers irreducible_truth or contradiction in
\* round r, the call returns after round r: r rounds were started, every
\* collaborator of the round loop was called for r rounds only, the trace holds
\* exactly r records, and the answer returned is round r's answer.
C2_StopExitsLoop ==
    (pc = "idle" /\ out.kind = "returned" /\ gh.stopAt > 0) =>
        /\ gh.started = gh.stopAt
        /\ Len(out.trace) = gh.stopAt
        /\ gh.calls["router"] = gh.stopAt
        /\ gh.calls["gate"] = gh.stopAt * Len(Experts)
        /\ gh.calls["judge"] = gh.stopAt
        /\ gh.calls["summarizer"] = gh.stopAt
        /\ gh.calls["critic"] = gh.stopAt
        /\ Len(gh.answers) = gh.stopAt
        /\ out.answer = gh.answers[gh.stopAt]
        /\ out.trace[gh.stopAt].meta.stop_label \in {"irreducible_truth", "contradiction"}

C2_Witness ==
    /\ pc = "idle"
    /\ out.kind = "returned"
    /\ gh.stopAt = 2
    /\ self.max_rounds = MaxRounds
    /\ out.trace[1].meta.stop_label = "continue"
    /\ out.trace[2].meta.stop_label = "contradiction"

\* C3: every forward call that meets no collaborator failure returns, for every
\* max_rounds (0 included), the answer of the last completed round of the session,
\* with the trace, the final summary and the final round count.
C3_AlwaysReturnsLastRound ==
    CallEnded =>
        /\ out.kind = "returned"
        /\ gh.completed > 0
        /\ out.answer = state.history[Len(state.history)].content
        /\ out.summary = state.summary
        /\ out.rounds = state.round_idx
        /\ Len(out.trace) = gh.started

\* C4: between rounds and between calls, round_idx is the number of rounds the
\* session has completed.
C4_RoundIdxCountsCompletedRounds ==
    pc \in {"idle", "loop", "exit"} => state.round_idx = gh.completed

\* the OrchestratorState of session s
StateOf(s) == IF cur = s THEN state ELSE other.state

\* C5: every step leaves each hint accumulator of each session a prefix of its
\* next value.
C5_HintsAppendOnly ==
    [][\A s \in {1, 2} :
          /\ IsPrefix(StateOf(s).router_guidance, StateOf(s)'.router_guidance)
          /\ \A k \in DOMAIN state.expert_hints :
                IsPrefix(StateOf(s).expert_hints[k], StateOf(s)'.expert_hints[k])]_vars

C5_Witness ==
    /\ pc = "idle"
    /\ out.kind = "returned"
    /\ Len(out.trace) >= 2
    /\ out.trace[1].meta.router_hint = <<"c", "\n">>
    /\ out.trace[2].meta.router_hint = <<" ", "b">>
    /\ out.trace[3].meta.router_hint = <<" ">>
    /\ state.router_guidance = <<"c", "\n", " ", "b">>
    /\ state.expert_hints["critic"] = <<"c", "\n", " ", "b">>

\* C6: in every round at least one candidate is selected, executed and handed to
\* the judge.
C6_NeverZeroCandidates ==
    pc \in {"judge", "judge_alt", "summarize"} =>
        /\ Len(pl.selected) >= 1
        /\ Len(pl.answers) >= 1

\* C7: when no expert passes gating, the only candidate is the first expert of the
\* registry with score 1.0 and no tags, it alone is executed and judged, and the
\* round's answer is its answer.
C7_FallbackWins ==
    (pc = "summarize" /\ gh.passed = 0) =>
        /\ pl.gating = <<[expert |-> Experts[1], score |-> 10, tags |-> {},
                          hint |-> pl.gating[1].hint]>>
        /\ pl.labels = <<Experts[1]>>
        /\ pl.answers = <<AnswerOf(Experts[1])>>
        /\ fr.pred.answer = AnswerOf(Experts[1])

C9_Scenario ==
    /\ SelectionDone
    /\ self.top_k = 3 /\ self.gate_lambda = 5 /\ self.gate_min_conf = 0
    /\ Len(pl.gating) = 3
    /\ {<<pl.gating[i].score, pl.gating[i].tags>> : i \in 1..3}
          = {<<9, {"x"}>>, <<8, {"x"}>>, <<7, {"y"}>>}

C10_WinnerIsACandidate ==
    pc = "summarize" => fr.pred.answer \in SeqToSet(fr.pred.candidates)

\* C11: when the judge returns an empty best label and the ranking
\* "Critic > Analyst" for the candidates Analyst, Critic and Synthesizer, the
\* round's winner is Critic: the answer reported is Critic's answer.
C11_RankingResolvesWinner ==
    (/\ pc = "summarize"
     /\ gh.judge_out = RankingOnly
     /\ SeqToSet(pl.labels) = {"Analyst", "Critic", "Synthesizer"}) =>
        fr.pred.answer = AnswerOf("Critic")

\* the call ended by an exception of the named collaborator
RaisedBy(c) ==
    pc = "idle" /\ out.kind = "raised" /\ out.error = "collaborator" /\ gh.last = c

\* C12: when the judge call and the alternate judge call of a round both raise, the
\* OrchestratorState is left exactly as it was before the round: round_idx, history,
\* summary, router_guidance and the hint map are unchanged.
C12_JudgeFailureLeavesState ==
    RaisedBy("simple") => state = gh.before

\* C13: a gate call that raises never aborts the round: after every gate call the
\* round goes on, to the next expert's gate, to the execution or to the judge.
C13_GateFailureDoesNotAbort ==
    [][pc = "gate" => pc' \in {"gate", "expert", "judge"}]_vars

\* C14: a summarizer or meta-critic call that raises never aborts the round: after
\* the summarizer the meta-critic is called, and after the meta-critic the loop
\* proceeds (to its next round or to its end).
C14_SummaryFailureDoesNotAbort ==
    [][/\ pc = "summarize" => pc' \in {"summarize", "critic"}
       /\ pc = "critic" => pc' \in {"critic", "loop", "exit"}]_vars

\* the hint accumulator of an expert's role (orchestrator.py lines 66-71: analyst,
\* synth, critic); the other experts have none
AccumulatedFor(expert_hints, name) ==
    CASE name = "Analyst" -> expert_hints["analyst"]
      [] name = "Synthesizer" -> expert_hints["synth"]
      [] name = "Critic" -> expert_hints["critic"]
      [] OTHER -> <<>>

\* C15: the hint passed to the answer call of every executed candidate, the
\* fallback candidate included, is the hint text accumulated for that expert in
\* the OrchestratorState at the start of the round.
C15_ExpertGetsAccumulatedHint ==
    \A i \in 1..Len(gh.expertHints) :
        gh.expertHints[i].hint
            = AccumulatedFor(gh.before.expert_hints, gh.expertHints[i].expert)

\* the hint the meta-critic emitted for an expert's role
EmittedFor(meta, name) ==
    CASE name = "Analyst" -> meta.analyst_hint
      [] name = "Synthesizer" -> meta.synth_hint
      [] name = "Critic" -> meta.critic_hint
      [] OTHER -> <<>>

\* sub occurs in s
Contains(s, sub) ==
    \E k \in 0..(Len(s) - Len(sub)) : SubSeq(s, k + 1, k + Len(sub)) = sub

\* C16: in the round after one in which the meta-critic emitted a non-empty hint
\* for a role, the hint text passed to the gate call of that role's expert
\* (Analyst, Synthesizer, Critic) contains the emitted hint.
C16_RoleHintReachesNextGate ==
    (fr.trace # <<>> /\ gh.started = Len(fr.trace) + 1) =>
        \A i \in 1..Len(gh.gateHints) :
            LET h == EmittedFor(fr.trace[Len(fr.trace)].meta, Experts[i])
            IN h # <<>> => Contains(gh.gateHints[i], Strip(h))

\* the thresholds compared, in tenths: 0.0 .. 1.0
Thresholds == 0..10

\* the number of candidates the round's gate results give the selector under a
\* threshold
Reaching(min_conf) ==
    Len(ToSelector(gh.gates, min_conf, state.mode, state.expert_hints))

\* C17: for the gate results of a round, the candidates reaching the selector
\* (the fallback counted) are those of lines 210-221, and under a higher
\* gate_min_conf they are never more than under a lower one.
C17_ThresholdMonotone ==
    SelectionDone =>
        /\ pl.gating = ToSelector(gh.gates, self.gate_min_conf, state.mode,
                                  state.expert_hints)
        /\ LET reaching == {<<t, Reaching(t)>> : t \in Thresholds}
           IN \A lo, hi \in reaching : lo[1] <= hi[1] => hi[2] <= lo[2]

C17_Witness ==
    /\ SelectionDone
    /\ self.gate_min_conf = 0
    /\ Len(pl.gating) = 3
    /\ Reaching(8) = 2
    /\ Reaching(9) = 1
    /\ Gating(gh.gates, 9, state.mode, state.expert_hints) # <<>>
    /\ Gating(gh.gates, 10, state.mode, state.expert_hints) = <<>>
    /\ Reaching(10) = 1

\* C18: for the tag sets A, B of any two gated candidates, jaccard(A, B) is 1 when
\* A = B is non-empty, 0 when both are empty, |A & B| / |A | B| otherwise, and
\* always within [0, 1] (in sixths: within 0..6).
C18_JaccardProperties ==
    \A i, j \in 1..Len(pl.gating) :
        LET A == pl.gating[i].tags
            B == pl.gating[j].tags
            v == _jaccard(A, B)
        IN /\ v \in 0..JaccardUnit
           /\ (A = B /\ A # {}) => v = JaccardUnit
           /\ (A = {} /\ B = {}) => v = 0
           /\ (A \cup B # {}) =>
                 v * Cardinality(A \cup B) = JaccardUnit * Cardinality(A \cap B)

C18_Witness ==
    /\ SelectionDone
    /\ \E i, j, k \in 1..Len(pl.gating) :
          /\ pl.gating[i].tags = {"x", "y"}
          /\ pl.gating[j].tags = {"x"}
          /\ pl.gating[k].tags = {}
          /\ _jaccard(pl.gating[i].tags, pl.gating[j].tags) = 3
          /\ _jaccard(pl.gating[k].tags, pl.gating[k].tags) = 0
          /\ _jaccard(pl.gating[k].tags, pl.gating[j].tags) = 0

\* C19: the k-th selected candidate is, among the gated candidates not selected
\* before it, one that maximises score - lambda * (largest Jaccard similarity to
\* the candidates selected before it, 0 when there are none), and the first such
\* in gating order.
C19_GreedySelection ==
    SelectionDone =>
        \A k \in 1..Len(pl.selected) :
            LET prev == SubSeq(pl.selected, 1, k - 1)
                chosen == pl.selected[k]
                remaining == {i \in 1..Len(pl.gating) :
                                \A j \in 1..(k - 1) : pl.selected[j] # pl.gating[i]}
            IN \E p \in remaining :
                  /\ pl.gating[p] = chosen
                  /\ \A i \in remaining :
                        /\ Val(pl.gating[i], prev, self.gate_lambda)
                              <= Val(chosen, prev, self.gate_lambda)
                        /\ i < p => Val(pl.gating[i], prev, self.gate_lambda)
                                       < Val(chosen, prev, self.gate_lambda)

C19_Witness ==
    /\ SelectionDone
    /\ self.top_k = 2
    /\ Len(pl.gating) = 3
    /\ pl.gating[1].score = pl.gating[2].score
    /\ pl.gating[1].tags = pl.gating[2].tags
    /\ pl.gating[3].score < pl.gating[1].score
    /\ pl.selected = <<pl.gating[1], pl.gating[3]>>

\* C20: an expert is in the gated list exactly when its gate answered yes with a
\* confidence of at least gate_min_conf; when no expert is, the list given to the
\* selector is the fallback candidate alone.
C20_GatedIffYesAndConfident ==
    pl.gi >= 1 =>
        LET passing == {i \in 1..Len(gh.gates) :
                          /\ gh.gates[i].respond = "yes"
                          /\ gh.gates[i].confidence >= self.gate_min_conf}
        IN IF SelectionDone /\ passing = {}
           THEN pl.gating = <<FallbackCandidate>>
           ELSE /\ Len(pl.gating) = Cardinality(passing)
                /\ \A i \in 1..Len(gh.gates) :
                      i \in passing <=>
                          \E j \in 1..Len(pl.gating) :
                              pl.gating[j].expert = Experts[i]

C20_Witness ==
    /\ SelectionDone
    /\ self.gate_min_conf = 8
    /\ gh.gates[1] = GateOut("no", 9, <<"x">>)
    /\ gh.gates[2] = GateOut("yes", 7, <<"y">>)
    /\ gh.gates[3] = GateOut("yes", 8, <<"X">>)
    /\ Len(pl.gating) = 1
    /\ pl.gating[1].expert = Experts[3]

\* C21: the alternate judge is called exactly once for each judge call that
\* raised and never after one that succeeded; the round then reports the alternate
\* judge's answer and rationale, or the judge's own when it succeeded; and a call
\* ended by the alternate judge's exception made no further judge call.
C21_JudgeRetryLadder ==
    /\ pc # "judge_alt" => gh.calls["simple"] = gh.judgeRaised
    /\ pc = "judge_alt" => gh.calls["simple"] = gh.judgeRaised - 1
    /\ pc = "summarize" =>
          IF gh.judge_out # NoJudgeOut
          THEN /\ gh.simple_out = NoJudgeOut
               /\ fr.pred.answer = _unpack_judge(gh.judge_out).ans
               /\ fr.pred.rationale = _unpack_judge(gh.judge_out).rat
          ELSE /\ gh.simple_out # NoJudgeOut
               /\ fr.pred.answer = gh.simple_out.answer
               /\ fr.pred.rationale = gh.simple_out.rationale
    /\ RaisedBy("simple") =>
          /\ gh.judge_out = NoJudgeOut
          /\ gh.simple_out = NoJudgeOut
          /\ gh.calls["judge"] = gh.started

C21_Witness ==
    /\ pc = "summarize"
    /\ gh.judgeRaised = 1
    /\ gh.calls["simple"] = 1
    /\ Len(pl.answers) = 2
    /\ fr.pred.answer = "text of the judge"

\* the pipeline of the current round is running or has just returned
InRound == pc \in {"router", "gate", "expert", "judge", "judge_alt", "summarize",
                   "critic"}

\* C22: after N completed rounds of a session the history holds 2N messages,
\* alternately user and assistant; every collaborator call of a round sees the
\* history the round began with; and a completed round leaves that history
\* followed by the query as user and the round's answer as assistant.
C22_HistoryPairs ==
    /\ Len(state.history) = 2 * gh.completed
    /\ \A k \in 1..gh.completed :
          /\ state.history[2 * k - 1].role = "user"
          /\ state.history[2 * k].role = "assistant"
    /\ InRound => state.history = gh.before.history
    /\ (pc \in {"loop", "exit"} /\ gh.answers # <<>>) =>
          state.history = gh.before.history
                            \o <<[role |-> "user", content |-> fr.query],
                                 [role |-> "assistant",
                                  content |-> gh.answers[Len(gh.answers)]]>>

C22_Witness ==
    /\ pc = "loop"
    /\ gh.ncalls = 2
    /\ gh.completed = 3
    /\ Len(gh.answers) = 1
    /\ Len(state.history) = 2 * 3

\* C23: from the pipeline call of a round to its return the OrchestratorState is
\* the one the round began with (the round counter advanced by the orchestrator
\* aside), and the answers handed to the judge are those of the selected
\* candidates in selection order, the i-th label naming the i-th answer's expert.
C23_PipelineFrame ==
    /\ pc \in {"router", "gate", "expert", "judge", "judge_alt", "summarize"} =>
          state = [gh.before EXCEPT !.round_idx = @ + 1]
    /\ pc \in {"judge", "judge_alt", "summarize"} =>
          /\ Len(pl.answers) = Len(pl.selected)
          /\ Len(pl.labels) = Len(pl.selected)
          /\ \A i \in 1..Len(pl.selected) :
                /\ pl.labels[i] = pl.selected[i].expert
                /\ pl.answers[i] = AnswerOf(pl.selected[i].expert)
    /\ pc = "summarize" =>
          /\ fr.pred.candidates = pl.answers
          /\ fr.pred.candidate_labels = pl.labels

C23_Witness ==
    /\ pc = "summarize"
    /\ Len(pl.gating) = 3
    /\ pl.labels = <<Experts[3], Experts[1], Experts[2]>>
    /\ pl.answers = <<AnswerOf(Experts[3]), AnswerOf(Experts[1]),
                      AnswerOf(Experts[2])>>

\* s has no leading and no trailing whitespace
Trimmed(s) == s = <<>> \/ (s[1] \notin Whitespace /\ s[Len(s)] \notin Whitespace)

\* the accumulator a after the hint h, as the claim states it
Applied(a, h) == IF h = <<>> THEN a ELSE Strip(a \o <<"\n">> \o h)

\* C24: every hint accumulator is free of leading and trailing whitespace in every
\* state, and after a completed round each accumulator is
\* trim(a + newline + h) for its value a at the start of the round and the
\* round's hint h when h is non-empty, and a when h is empty.
C24_HintsTrimmed ==
    /\ Trimmed(state.router_guidance)
    /\ \A k \in DOMAIN state.expert_hints : Trimmed(state.expert_hints[k])
    /\ (pc \in {"loop", "exit"} /\ fr.trace # <<>>) =>
          LET meta == fr.trace[Len(fr.trace)].meta
              a == gh.before
          IN /\ state.router_guidance = Applied(a.router_guidance, meta.router_hint)
             /\ state.expert_hints["analyst"]
                   = Applied(a.expert_hints["analyst"], meta.analyst_hint)
             /\ state.expert_hints["synth"]
                   = Applied(a.expert_hints["synth"], meta.synth_hint)
             /\ state.expert_hints["critic"]
                   = Applied(a.expert_hints["critic"], meta.critic_hint)

C24_Witness ==
    /\ pc = "loop"
    /\ Len(fr.trace) = 3
    /\ fr.trace[1].meta.analyst_hint = <<" ", "b">>
    /\ fr.trace[2].meta.analyst_hint = <<" ">>
    /\ fr.trace[3].meta.analyst_hint = <<"c", "\n">>
    /\ state.expert_hints["analyst"] = <<"b", "\n", "c">>
    /\ gh.before.expert_hints["analyst"] = <<"b">>

\* the records of a trace are numbered from the round_idx at call entry on
NumberedFrom(trace, entry) ==
    \A k \in 1..Len(trace) : trace[k].round = entry + k

\* C25: during a forward call the trace holds one record per round completed in
\* the call, numbered consecutively from the round_idx at call entry; a step only
\* appends to it or ends the call, which returns it as it is; and the returned
\* round count is state.round_idx, the round_idx at entry plus the trace length.
C25_TraceRecords ==
    [][/\ (pc' # "idle" => /\ Len(fr'.trace) = Len(gh'.answers)
                           /\ NumberedFrom(fr'.trace, gh'.entryIdx))
       /\ IsPrefix(fr.trace, fr'.trace) \/ pc' = "idle" \/ cur' # cur
       /\ (pc = "exit" /\ out'.kind = "returned") => out'.trace = fr.trace
       /\ (pc' = "idle" /\ out'.kind = "returned") =>
             /\ Len(out'.trace) = Len(gh'.answers)
             /\ NumberedFrom(out'.trace, gh'.entryIdx)
             /\ out'.rounds = state'.round_idx
             /\ out'.rounds = gh'.entryIdx + Len(out'.trace)]_vars

C25_Witness ==
    /\ pc = "idle"
    /\ out.kind = "returned"
    /\ gh.ncalls = 2
    /\ gh.entryIdx = MaxRounds
    /\ Len(out.trace) = 2
    /\ out.rounds = MaxRounds + 2
    /\ out.trace[2].round = MaxRounds + 2

\* the stop_label of a trace record is neither irreducible_truth nor contradiction
NonTerminal(record) ==
    record.meta.stop_label \notin {"irreducible_truth", "contradiction"}

\* C26: after a round whose stop_label is neither irreducible_truth nor
\* contradiction (continue, empty, or outside the enumerated set) the round is
\* recorded, no final answer is fixed and the loop ends only when max_rounds
\* rounds are done; a call in which no round is terminal runs max_rounds rounds.
C26_UnknownLabelContinues ==
    /\ (pc \in {"loop", "exit"} /\ fr.trace # <<>>
           /\ NonTerminal(fr.trace[Len(fr.trace)])) =>
          /\ Len(fr.trace) = gh.started
          /\ ~fr.final.bound
          /\ pc = "exit" => Len(fr.trace) = self.max_rounds
    /\ (pc = "idle" /\ out.kind = "returned"
           /\ \A k \in 1..Len(out.trace) : NonTerminal(out.trace[k])) =>
          /\ Len(out.trace) = self.max_rounds
          /\ gh.started = self.max_rounds

C26_Witness ==
    /\ pc = "idle"
    /\ out.kind = "returned"
    /\ Len(out.trace) = MaxRounds
    /\ out.trace[1].meta.stop_label = ""
    /\ out.trace[2].meta.stop_label = "done"
    /\ out.trace[3].meta.stop_label = "continue"

\* the step enters a forward call
EntersCall == pc = "idle" /\ pc' = "loop"

\* C27: a forward call stores a given max_rounds on the Orchestrator and runs
\* that many rounds; a call given none runs the stored value, whichever session
\* stored it; no other step changes the stored value.  A goal or mode given
\* non-empty replaces the state's, an absent or empty one leaves it, and no other
\* step changes the goal or mode of either session.
C27_ArgumentsPersist ==
    [][/\ EntersCall =>
             LET a == gh'.args
             IN /\ self'.max_rounds = IF a.max_rounds.given THEN a.max_rounds.v
                                      ELSE self.max_rounds
                /\ fr'.n = Max2(self'.max_rounds, 0)
                /\ state'.goal = IF a.goal \in {None, ""} THEN state.goal
                                 ELSE a.goal
                /\ state'.mode = IF a.mode \in {None, ""} THEN state.mode
                                 ELSE a.mode
       /\ ~EntersCall =>
             /\ self'.max_rounds = self.max_rounds
             /\ \A s \in {1, 2} : /\ StateOf(s)'.goal = StateOf(s).goal
                                   /\ StateOf(s)'.mode = StateOf(s).mode]_vars

C27_Witness ==
    /\ cur = 2
    /\ pc = "exit"
    /\ gh.ncalls = 1
    /\ gh.args = [goal |-> "", mode |-> "", max_rounds |-> NoArg]
    /\ gh.started = 1
    /\ self.max_rounds = 1
    /\ state.goal = DEFAULT_ULTIMATE_GOAL
    /\ state.mode = "verify"
    /\ other.gh.ncalls = 1
    /\ other.gh.args = [goal |-> "prove it", mode |-> "explore",
                        max_rounds |-> Arg(1)]
    /\ other.out.kind = "returned"
    /\ other.state.goal = "prove it"
    /\ other.state.mode = "explore"

\* C28: the OrchestratorState of a session changes only in steps of that session's
\* own forward call: a step of the other session, and the turn from one session
\* to the other, leave its history, summary, goal, mode, hints and round_idx as
\* they were.
C28_SessionsIndependent ==
    [][\A s \in {1, 2} :
          (s # cur \/ cur' # cur) => StateOf(s)' = StateOf(s)]_vars

C28_Witness ==
    /\ cur = 1
    /\ pc = "critic"
    /\ state.round_idx = 1
    /\ state.history = <<>>
    /\ other.pc = "gate"
    /\ other.state.round_idx = 2
    /\ Len(other.state.history) = 2
    /\ other.state.expert_hints["synth"] = <<"s">>

====
